---- MODULE Spec2Model ----
(***************************************************************************)
(* Model of ignite.engine.create_supervised_trainer,                       *)
(* ignite.engine.create_supervised_evaluator and                           *)
(* ignite.contrib.metrics.AveragePrecision.                                *)
(*                                                                         *)
(* Python strings that the code inspects (device names) are sequences of   *)
(* one-character strings.  A closure variable of the factory is a cell     *)
(* [bound, val]: reading a cell that was never assigned raises NameError,  *)
(* exactly as a free variable of a nested Python function does.            *)
(***************************************************************************)
EXTENDS Integers, Sequences, FiniteSets, TLC

VARIABLES env, args, model, engines, trainer, run, evaluator, evalRun, attached,
          metric, score

vars == <<env, args, model, engines, trainer, run, evaluator, evalRun, attached,
          metric, score>>

(***************************************************************************)
(* Bounds                                                                  *)
(***************************************************************************)
MaxIterations == 2
MaxData == 1
MaxSamples == 3

(***************************************************************************)
(* Input domains                                                           *)
(***************************************************************************)
StrCpu == <<"c", "p", "u">>
StrCuda == <<"c", "u", "d", "a">>
StrXla == <<"x", "l", "a">>
StrXla1 == <<"x", "l", "a", ":", "1">>

NoneDevice == [kind |-> "None", text |-> <<>>]

Devices ==
    { NoneDevice,
      [kind |-> "str", text |-> StrCuda],
      [kind |-> "str", text |-> StrXla1],
      [kind |-> "torch.device", text |-> StrCpu],
      [kind |-> "torch.device", text |-> StrXla] }

Slots == {"first", "second"}

TorchVersions == { <<1, 5, 1>>, <<1, 6, 0>> }

NoKwargs == {}
GradNormKwargs == { NoKwargs, { <<"max_norm", 1>> } }

\* A tensor is its data and the type of the device it lives on.
Tensor(d, dev) == [data |-> d, device |-> dev]
NoTensor == [data |-> 0, device |-> <<>>]
Batches == { <<Tensor(a, StrCpu), Tensor(MaxData - a, StrCpu)>> : a \in 0..MaxData }
NoBatch == <<NoTensor, NoTensor>>

(***************************************************************************)
(* Python evaluation helpers                                               *)
(***************************************************************************)
Unbound == [bound |-> FALSE, val |-> FALSE]
Bound(v) == [bound |-> TRUE, val |-> v]

\* Value of an expression: "T", "F", or "E" when evaluating it raised NameError.
Load(cell) == IF ~cell.bound THEN "E" ELSE IF cell.val THEN "T" ELSE "F"
PyBool(b) == IF b THEN "T" ELSE "F"
PyNot(a) == IF a = "E" THEN "E" ELSE IF a = "T" THEN "F" ELSE "T"
\* `a and b`: b is evaluated only when a is true.
PyAnd(a, b) == IF a = "E" THEN "E" ELSE IF a = "F" THEN "F" ELSE b

\* `sub in s` for strings
StrContains(sub, s) ==
    \E i \in 0..(Len(s) - Len(sub)) : SubSeq(s, i + 1, i + Len(sub)) = sub

\* LooseVersion(a) >= LooseVersion(b): component lists compared in order
RECURSIVE VersionGE(_, _)
VersionGE(a, b) ==
    IF b = <<>> THEN TRUE
    ELSE IF a = <<>> THEN FALSE
    ELSE IF Head(a) > Head(b) THEN TRUE
    ELSE IF Head(a) < Head(b) THEN FALSE
    ELSE VersionGE(Tail(a), Tail(b))

\* torch.device(str).type: the text before ':'
RECURSIVE DeviceTypeOfStr(_)
DeviceTypeOfStr(s) ==
    IF s = <<>> THEN <<>>
    ELSE IF Head(s) = ":" THEN <<>>
    ELSE <<Head(s)>> \o DeviceTypeOfStr(Tail(s))

(***************************************************************************)
(* Collaborators that live outside the two source files                    *)
(***************************************************************************)
\* ignite.utils.convert_tensor: a tensor-device move
convert_tensor(t, device, non_blocking) ==
    IF device.kind = "None" THEN t
    ELSE Tensor(t.data, DeviceTypeOfStr(device.text))

\* the user's model and loss function, applied to tensors
ModelForward(m, x) == Tensor(x.data + m.params + 1, x.device)
LossFn(y_pred, y) == Tensor((y_pred.data - y.data) * (y_pred.data - y.data), y_pred.device)
\* Tensor.item(): the Python number held by a one-element tensor
Item(t) == t.data

(***************************************************************************)
(* ignite/engine/__init__.py                                               *)
(***************************************************************************)
_prepare_batch(batch, device, non_blocking) ==
    << convert_tensor(batch[1], device, non_blocking),
       convert_tensor(batch[2], device, non_blocking) >>

\* line 103
DeviceType(device) ==
    IF device.kind = "torch.device" THEN [none |-> FALSE, text |-> device.text]
    ELSE IF device.kind = "None" THEN [none |-> TRUE, text |-> <<>>]
    ELSE [none |-> FALSE, text |-> device.text]

\* line 104 with `==` in place of `in`
OnTpuEquality(device) ==
    LET device_type == DeviceType(device)
    IN  IF ~device_type.none THEN device_type.text = StrXla ELSE FALSE

\* line 104
OnTpu(device) ==
    LET device_type == DeviceType(device)
    IN  IF ~device_type.none THEN StrContains(StrXla, device_type.text) ELSE FALSE

NoCells ==
    [is_native_amp |-> Unbound, is_apex_amp |-> Unbound, autocast |-> FALSE, amp |-> "False"]

\* lines 109-119 with both flags assigned before the branches
SelectBackendBothBound(a, e) ==
    IF a.amp /\ VersionGE(e.torch_version, <<1, 6, 0>>)
    THEN [exc |-> "none",
          cells |-> [is_native_amp |-> Bound(TRUE), is_apex_amp |-> Bound(FALSE),
                     autocast |-> TRUE, amp |-> "True"]]
    ELSE IF a.amp
    THEN IF e.has_apex
         THEN [exc |-> "none",
               cells |-> [is_native_amp |-> Bound(FALSE), is_apex_amp |-> Bound(TRUE),
                          autocast |-> FALSE, amp |-> "apex"]]
         ELSE [exc |-> "ImportError", cells |-> NoCells]
    ELSE [exc |-> "none",
          cells |-> [is_native_amp |-> Bound(FALSE), is_apex_amp |-> Bound(FALSE),
                     autocast |-> FALSE, amp |-> "False"]]

\* lines 109-119: which amp backend the factory binds; amp is rebound to the
\* apex module by `from apex import amp`.
SelectBackend(a, e) ==
    IF a.amp /\ VersionGE(e.torch_version, <<1, 6, 0>>)
    THEN [exc |-> "none",
          cells |-> [is_native_amp |-> Bound(TRUE), is_apex_amp |-> Unbound,
                     autocast |-> TRUE, amp |-> "True"]]
    ELSE IF a.amp
    THEN IF e.has_apex
         THEN [exc |-> "none",
               cells |-> [is_native_amp |-> Unbound, is_apex_amp |-> Bound(TRUE),
                          autocast |-> FALSE, amp |-> "apex"]]
         ELSE [exc |-> "ImportError", cells |-> NoCells]
    ELSE [exc |-> "none", cells |-> [NoCells EXCEPT !.amp = PyBool(a.amp)]]

NoTrainer ==
    [status |-> "none", exc |-> "none", device |-> NoneDevice, on_tpu |-> FALSE,
     cells |-> NoCells, cls |-> "none", engine |-> 0, factory_ops |-> <<>>,
     iteration |-> 0]

\* lines 103-157: the value the factory call leaves behind
SupervisedTrainer(device, a, e, id) ==
    LET on_tpu == OnTpu(device)
        sel == SelectBackend(a, e)
    IN  IF on_tpu /\ ~e.has_xla_support
        THEN [NoTrainer EXCEPT !.status = "raised", !.exc = "RuntimeError: TPU",
                               !.device = device, !.on_tpu = on_tpu]
        ELSE IF sel.exc # "none"
        THEN [NoTrainer EXCEPT !.status = "raised", !.exc = sel.exc,
                               !.device = device, !.on_tpu = on_tpu]
        ELSE [status |-> "engine", exc |-> "none", device |-> device, on_tpu |-> on_tpu,
              cells |-> sel.cells,
              cls |-> IF ~a.deterministic THEN "Engine" ELSE "DeterministicEngine",
              engine |-> id, factory_ops |-> <<>>, iteration |-> 0]

(***************************************************************************)
(* create_supervised_trainer._update, statement by statement.  The frame f *)
(* holds the locals of one call, the operations performed so far and the   *)
(* exception that ended the call, if any.                                  *)
(***************************************************************************)
NewFrame(m) ==
    [exc |-> "none", ops |-> <<>>, clips |-> <<>>,
     x |-> NoTensor, y |-> NoTensor, y_pred |-> NoTensor, loss |-> NoTensor,
     mode |-> m.mode, params |-> m.params, grad |-> FALSE,
     returned |-> FALSE, output |-> 0]

Do(f, names) == [f EXCEPT !.ops = @ \o names]
Raise(f, e) == [f EXCEPT !.exc = e]

\* lines 122-124
UpdatePrepare(f, t, a, batch) ==
    LET xy == _prepare_batch(batch, t.device, a.non_blocking)
    IN  [Do(f, <<"model.train", "optimizer.zero_grad", "prepare_batch">>)
            EXCEPT !.mode = "train", !.x = xy[1], !.y = xy[2]]

\* lines 130-131 (and 127-128)
ForwardAndLoss(f) ==
    LET y_pred == ModelForward([params |-> f.params], f.x)
    IN  [Do(f, <<"model.forward", "loss_fn">>)
            EXCEPT !.y_pred = y_pred, !.loss = LossFn(y_pred, f.y)]

\* lines 125-131
UpdateForward(f, t) ==
    LET c == PyAnd(Load(t.cells.is_native_amp), PyNot(Load(t.cells.is_apex_amp)))
    IN  IF f.exc # "none" THEN f
        ELSE IF c = "E" THEN Raise(f, "NameError")
        ELSE IF c = "T"
        THEN IF ~t.cells.autocast THEN Raise(f, "NameError")
             ELSE Do(ForwardAndLoss(Do(f, <<"autocast.enter">>)), <<"autocast.exit">>)
        ELSE ForwardAndLoss(f)

\* lines 133-138
UpdateBackward(f, t, a) ==
    LET c1 == PyAnd(Load(t.cells.is_apex_amp), PyNot(Load(t.cells.is_native_amp)))
        c2 == PyAnd(PyNot(Load(t.cells.is_apex_amp)), Load(t.cells.is_native_amp))
    IN  IF f.exc # "none" THEN f
        ELSE IF c1 = "E" THEN Raise(f, "NameError")
        ELSE IF c1 = "T"
        THEN IF t.cells.amp # "apex" THEN Raise(f, "AttributeError")
             ELSE [Do(f, <<"amp.scale_loss", "backward">>) EXCEPT !.grad = TRUE]
        ELSE IF c2 = "E" THEN Raise(f, "NameError")
        ELSE IF c2 = "T"
        THEN IF ~a.scaler THEN Raise(f, "AttributeError")
             ELSE [Do(f, <<"scaler.scale", "backward", "scaler.unscale_">>)
                      EXCEPT !.grad = TRUE]
        ELSE f

\* lines 140-143
UpdateClip(f, t, a) ==
    LET kw == PyBool(a.grad_norm_kwargs # {})
        c1 == PyAnd(kw, PyAnd(PyNot(Load(t.cells.is_apex_amp)), Load(t.cells.is_native_amp)))
        c2 == PyAnd(kw, PyAnd(Load(t.cells.is_apex_amp), PyNot(Load(t.cells.is_native_amp))))
    IN  IF f.exc # "none" THEN f
        ELSE IF c1 = "E" THEN Raise(f, "NameError")
        ELSE IF c1 = "T"
        THEN [Do(f, <<"clip_grad_norm_">>)
                 EXCEPT !.clips = Append(@, [params |-> "model.parameters",
                                             kwargs |-> a.grad_norm_kwargs])]
        ELSE IF c2 = "E" THEN Raise(f, "NameError")
        ELSE IF c2 = "T"
        THEN IF t.cells.amp # "apex" THEN Raise(f, "AttributeError")
             ELSE [Do(f, <<"clip_grad_norm_">>)
                      EXCEPT !.clips = Append(@, [params |-> "amp.master_params",
                                                  kwargs |-> a.grad_norm_kwargs])]
        ELSE f

\* lines 145-151; a module object is true, so `not amp` is false under apex
UpdateStep(f, t, a, e) ==
    LET c1 == PyAnd(PyBool(t.on_tpu), PyNot(PyBool(t.cells.amp # "False")))
        c2 == PyAnd(Load(t.cells.is_native_amp), PyNot(Load(t.cells.is_apex_amp)))
        c3 == PyAnd(PyNot(Load(t.cells.is_native_amp)), Load(t.cells.is_apex_amp))
        stepped(g) == [g EXCEPT !.params = IF g.grad THEN @ + 1 ELSE @]
    IN  IF f.exc # "none" THEN f
        ELSE IF c1 = "T"
        THEN IF ~e.has_xla_support THEN Raise(f, "NameError")
             ELSE stepped(Do(f, <<"xm.optimizer_step">>))
        ELSE IF c2 = "E" THEN Raise(f, "NameError")
        ELSE IF c2 = "T"
        THEN IF ~a.scaler THEN Raise(f, "AttributeError")
             ELSE stepped(Do(f, <<"scaler.step", "scaler.update">>))
        ELSE IF c3 = "E" THEN Raise(f, "NameError")
        ELSE IF c3 = "T" THEN stepped(Do(f, <<"optimizer.step">>))
        ELSE f

\* line 52: the default output_transform
TrainerOutputTransform(x, y, y_pred, loss) == Item(loss)

\* line 153
UpdateReturn(f) ==
    IF f.exc # "none" THEN f
    ELSE [Do(f, <<"output_transform">>)
             EXCEPT !.returned = TRUE,
                    !.output = TrainerOutputTransform(f.x, f.y, f.y_pred, f.loss)]

\* lines 121-153
_update(t, a, e, m, batch) ==
    UpdateReturn(
      UpdateStep(
        UpdateClip(
          UpdateBackward(
            UpdateForward(
              UpdatePrepare(NewFrame(m), t, a, batch), t),
            t, a),
          t, a),
        t, a, e))

(***************************************************************************)
(* create_supervised_evaluator                                             *)
(***************************************************************************)
\* A dict is the sequence of its (key, value) items in insertion order.
NoMetrics == [none |-> TRUE, items |-> <<>>]
MetricMaps ==
    { NoMetrics, [none |-> FALSE, items |-> <<>>],
      [none |-> FALSE, items |-> << <<"ap", "AveragePrecision">> >>],
      [none |-> FALSE, items |-> << <<"ap", "AveragePrecision">>, <<"accuracy", "Accuracy">> >>],
      [none |-> FALSE, items |-> << <<"accuracy", "Accuracy">>, <<"ap", "Accuracy">> >>] }

\* Metric.attach(engine, name): registers the metric on the engine under name
MetricAttach(log, metric_, engine, name) ==
    Append(log, [metric |-> metric_, engine |-> engine, name |-> name])

\* line 203
MetricsOrEmpty(metrics) == IF metrics.none \/ metrics.items = <<>> THEN <<>> ELSE metrics.items

\* lines 214-215 with the loop left after its first pass
AttachFirstOnly(log, items, engine) ==
    IF items = <<>> THEN log
    ELSE MetricAttach(log, Head(items)[2], engine, Head(items)[1])

\* lines 214-215
RECURSIVE AttachAll(_, _, _)
AttachAll(log, items, engine) ==
    IF items = <<>> THEN log
    ELSE AttachAll(MetricAttach(log, Head(items)[2], engine, Head(items)[1]),
                   Tail(items), engine)

NoEvaluator ==
    [status |-> "none", device |-> NoneDevice, engine |-> 0, factory_ops |-> <<>>,
     iteration |-> 0]

\* lines 203-217
SupervisedEvaluator(device, a, log, id) ==
    [evaluator |-> [status |-> "engine", device |-> device, engine |-> id,
                    factory_ops |-> <<>>, iteration |-> 0],
     attached |-> AttachAll(log, MetricsOrEmpty(a.metrics), id)]

\* line 166: the default output_transform
EvaluatorOutputTransform(x, y, y_pred) == <<y_pred, y>>

NewEvalFrame(m) ==
    [exc |-> "none", ops |-> <<>>, x |-> NoTensor, y |-> NoTensor, y_pred |-> NoTensor,
     mode |-> m.mode, params |-> m.params, returned |-> FALSE,
     output |-> <<NoTensor, NoTensor>>]

\* lines 205-210 with model.train() in place of model.eval()
_inferenceTrainMode(ev, a, m, batch) ==
    LET f0 == [Do(NewEvalFrame(m), <<"model.train", "no_grad.enter">>) EXCEPT !.mode = "train"]
        xy == _prepare_batch(batch, ev.device, a.non_blocking)
        y_pred == ModelForward([params |-> f0.params], xy[1])
    IN  [Do(f0, <<"prepare_batch", "model.forward", "output_transform", "no_grad.exit">>)
            EXCEPT !.x = xy[1], !.y = xy[2], !.y_pred = y_pred, !.returned = TRUE,
                   !.output = EvaluatorOutputTransform(xy[1], xy[2], y_pred)]

\* lines 205-210
_inference(ev, a, m, batch) ==
    LET f0 == [Do(NewEvalFrame(m), <<"model.eval", "no_grad.enter">>) EXCEPT !.mode = "eval"]
        xy == _prepare_batch(batch, ev.device, a.non_blocking)
        y_pred == ModelForward([params |-> f0.params], xy[1])
    IN  [Do(f0, <<"prepare_batch", "model.forward", "output_transform", "no_grad.exit">>)
            EXCEPT !.x = xy[1], !.y = xy[2], !.y_pred = y_pred, !.returned = TRUE,
                   !.output = EvaluatorOutputTransform(xy[1], xy[2], y_pred)]

(***************************************************************************)
(* Engines: state machine                                                  *)
(***************************************************************************)
InitModel == [mode |-> "init", params |-> 0, device |-> StrCpu]

\* The last call of an engine's process function: its batch, the model
\* parameters it started from, and the frame it ended with.
NoRun == [called |-> FALSE, batch |-> NoBatch, params |-> 0, frame |-> NewFrame(InitModel)]
NoEvalRun ==
    [called |-> FALSE, batch |-> NoBatch, params |-> 0, frame |-> NewEvalFrame(InitModel)]

Envs == [torch_version : TorchVersions, has_apex : BOOLEAN, has_xla_support : BOOLEAN,
         has_sklearn : {TRUE}]
PlainEnv == [torch_version |-> <<1, 6, 0>>, has_apex |-> FALSE, has_xla_support |-> FALSE,
             has_sklearn |-> TRUE]

InitEngines ==
    /\ model = InitModel
    /\ engines = 0
    /\ trainer = [s \in Slots |-> NoTrainer]
    /\ run = [s \in Slots |-> NoRun]
    /\ evaluator = [s \in Slots |-> NoEvaluator]
    /\ evalRun = [s \in Slots |-> NoEvalRun]
    /\ attached = <<>>

NoMetric ==
    [status |-> "none", exc |-> "none", device |-> StrCpu,
     predictions |-> Tensor(<<>>, StrCpu), targets |-> Tensor(<<>>, StrCpu)]
NoScore == [computed |-> FALSE, value |-> [fn |-> "none", y_true |-> <<>>, y_score |-> <<>>]]

InitMetricIdle ==
    /\ metric = NoMetric
    /\ score = NoScore

InitTrainer ==
    /\ env \in Envs
    /\ args \in [amp : BOOLEAN, grad_norm_kwargs : GradNormKwargs, deterministic : BOOLEAN,
                 scaler : {TRUE}, non_blocking : BOOLEAN, metrics : {NoMetrics}]
    /\ InitEngines
    /\ InitMetricIdle

\* The script calls the factory once per slot, with the arguments args and
\* the device it chooses for that engine.
CreateSupervisedTrainer(s, device) ==
    /\ trainer[s].status = "none"
    /\ evaluator[s].status = "none"
    /\ LET t == SupervisedTrainer(device, args, env, engines + 1)
       IN  /\ trainer' = [trainer EXCEPT ![s] = t]
           /\ engines' = IF t.status = "engine" THEN engines + 1 ELSE engines
    /\ UNCHANGED <<env, args, model, run, evaluator, evalRun, attached, metric, score>>

\* Engine.run hands one batch to the process function; the value it returns
\* becomes state.output, an exception it raises ends the run.
TrainerIteration(s, batch) ==
    /\ trainer[s].status = "engine"
    /\ trainer[s].iteration < MaxIterations
    /\ LET f == _update(trainer[s], args, env, model, batch)
       IN  /\ run' = [run EXCEPT ![s] = [called |-> TRUE, batch |-> batch,
                                                params |-> model.params, frame |-> f]]
           /\ model' = [model EXCEPT !.mode = f.mode, !.params = f.params]
    /\ trainer' = [trainer EXCEPT ![s].iteration = @ + 1]
    /\ UNCHANGED <<env, args, engines, evaluator, evalRun, attached, metric, score>>

NextTrainer ==
    \/ \E s \in Slots, device \in Devices : CreateSupervisedTrainer(s, device)
    \/ \E s \in Slots, batch \in Batches : TrainerIteration(s, batch)

Spec == InitTrainer /\ [][NextTrainer]_vars

InitEvaluator ==
    /\ env \in {PlainEnv, [PlainEnv EXCEPT !.has_xla_support = TRUE]}
    /\ args \in [amp : {FALSE}, grad_norm_kwargs : {NoKwargs}, deterministic : {FALSE},
                 scaler : {TRUE}, non_blocking : BOOLEAN, metrics : MetricMaps]
    /\ InitEngines
    /\ InitMetricIdle

CreateSupervisedEvaluator(s, device) ==
    /\ trainer[s].status = "none"
    /\ evaluator[s].status = "none"
    /\ LET r == SupervisedEvaluator(device, args, attached, engines + 1)
       IN  /\ evaluator' = [evaluator EXCEPT ![s] = r.evaluator]
           /\ attached' = r.attached
    /\ engines' = engines + 1
    /\ UNCHANGED <<env, args, model, trainer, run, evalRun, metric, score>>

EvaluatorIteration(s, batch) ==
    /\ evaluator[s].status = "engine"
    /\ evaluator[s].iteration < MaxIterations
    /\ LET f == _inference(evaluator[s], args, model, batch)
       IN  /\ evalRun' = [evalRun EXCEPT ![s] = [called |-> TRUE, batch |-> batch,
                                                params |-> model.params, frame |-> f]]
           /\ model' = [model EXCEPT !.mode = f.mode, !.params = f.params]
    /\ evaluator' = [evaluator EXCEPT ![s].iteration = @ + 1]
    /\ UNCHANGED <<env, args, engines, trainer, run, attached, metric, score>>

NextEvaluator ==
    \/ \E s \in Slots, device \in Devices : CreateSupervisedEvaluator(s, device)
    \/ \E s \in Slots, batch \in Batches : EvaluatorIteration(s, batch)

EvaluatorSpec == InitEvaluator /\ [][NextEvaluator]_vars

\* Trainers and evaluators side by side, over the same model
InitDevice ==
    /\ env \in {e \in Envs : e.has_apex}
    /\ args \in [amp : BOOLEAN, grad_norm_kwargs : {{ <<"max_norm", 1>> }}, deterministic : {FALSE},
                 scaler : {TRUE}, non_blocking : {FALSE}, metrics : {NoMetrics}]
    /\ InitEngines
    /\ InitMetricIdle

NextDevice == NextTrainer \/ NextEvaluator

DeviceSpec == InitDevice /\ [][NextDevice]_vars

(***************************************************************************)
(* ignite/contrib/metrics/average_precision.py                             *)
(***************************************************************************)
\* Tensor.cpu() and Tensor.numpy(): an ndarray has values and no device
TensorCpu(t) == Tensor(t.data, StrCpu)
Numpy(t) == [array |-> t.data]

\* sklearn.metrics.average_precision_score(y_true, y_score): the library
\* call, kept as the call it is
average_precision_score(y_true, y_score) ==
    [fn |-> "average_precision_score", y_true |-> y_true.array, y_score |-> y_score.array]

\* lines 62-65 with the arguments of the library call in the wrapper's order
wrapperSameOrder(y_preds, y_targets) ==
    LET y_true == Numpy(TensorCpu(y_targets))
        y_pred == Numpy(TensorCpu(y_preds))
    IN  average_precision_score(y_pred, y_true)

\* lines 62-65
wrapper(y_preds, y_targets) ==
    LET y_true == Numpy(TensorCpu(y_targets))
        y_pred == Numpy(TensorCpu(y_preds))
    IN  average_precision_score(y_true, y_pred)

\* lines 45-57
AveragePrecisionNew(device, e) ==
    IF ~e.has_sklearn
    THEN [NoMetric EXCEPT !.status = "raised", !.exc = "RuntimeError: sklearn"]
    ELSE [NoMetric EXCEPT !.status = "ready", !.device = device,
                          !.predictions = Tensor(<<>>, device),
                          !.targets = Tensor(<<>>, device)]

Scores == 0..(MaxData + 1)
Labels == {0, 1}
MetricDevices == {StrCpu, StrCuda}

InitMetric ==
    /\ env \in {PlainEnv, [PlainEnv EXCEPT !.has_sklearn = FALSE]}
    /\ args = [amp |-> FALSE, grad_norm_kwargs |-> NoKwargs, deterministic |-> FALSE,
               scaler |-> TRUE, non_blocking |-> FALSE, metrics |-> NoMetrics]
    /\ InitEngines
    /\ InitMetricIdle

AveragePrecisionInit(device) ==
    /\ metric.status = "none"
    /\ metric' = AveragePrecisionNew(device, env)
    /\ UNCHANGED <<env, args, model, engines, trainer, run, evaluator, evalRun, attached, score>>

\* EpochMetric.update: one more (prediction, target) pair is accumulated on
\* the metric's device
EpochMetricUpdate(p, t) ==
    /\ metric.status = "ready"
    /\ ~score.computed
    /\ Len(metric.predictions.data) < MaxSamples
    /\ metric' = [metric EXCEPT !.predictions.data = Append(@, p),
                                !.targets.data = Append(@, t)]
    /\ UNCHANGED <<env, args, model, engines, trainer, run, evaluator, evalRun, attached, score>>

\* EpochMetric.compute: compute_fn(predictions, targets)
EpochMetricCompute ==
    /\ metric.status = "ready"
    /\ Len(metric.predictions.data) > 0
    /\ score' = [computed |-> TRUE, value |-> wrapper(metric.predictions, metric.targets)]
    /\ UNCHANGED <<env, args, model, engines, trainer, run, evaluator, evalRun, attached, metric>>

\* EpochMetric.reset at the start of the next epoch
EpochMetricReset ==
    /\ metric.status = "ready"
    /\ score.computed
    /\ metric' = [metric EXCEPT !.predictions.data = <<>>, !.targets.data = <<>>]
    /\ score' = NoScore
    /\ UNCHANGED <<env, args, model, engines, trainer, run, evaluator, evalRun, attached>>

NextMetric ==
    \/ \E device \in MetricDevices : AveragePrecisionInit(device)
    \/ \E p \in Scores, t \in Labels : EpochMetricUpdate(p, t)
    \/ EpochMetricCompute
    \/ EpochMetricReset

MetricSpec == InitMetric /\ [][NextMetric]_vars

(***************************************************************************)
(* Properties                                                              *)
(***************************************************************************)
IndexOf(ops, name) ==
    IF \E i \in 1..Len(ops) : ops[i] = name
    THEN CHOOSE i \in 1..Len(ops) : ops[i] = name /\ \A j \in 1..(i - 1) : ops[j] # name
    ELSE 0
Count(ops, names) == Cardinality({i \in 1..Len(ops) : ops[i] \in names})
IsNotPrepare(o) == o # "prepare_batch"
IsNotClip(o) == o # "clip_grad_norm_"
StepOps == {"optimizer.step", "scaler.step", "xm.optimizer_step"}
TrainingOps ==
    StepOps \cup {"backward", "optimizer.zero_grad", "scaler.scale", "scaler.unscale_",
                  "scaler.update", "amp.scale_loss", "clip_grad_norm_", "model.train"}
XlaDevices == {[kind |-> "str", text |-> StrXla1], [kind |-> "torch.device", text |-> StrXla]}
NativeAmpVersions == { <<1, 6, 0>> }

\* C1: every call of the trainer's update function completes and returns
\* output_transform(x, y, y_pred, loss) with (x, y) = prepare_batch(batch,
\* device, non_blocking), y_pred = model(x), loss = loss_fn(y_pred, y); by
\* default that is loss.item().
C1_UpdateReturnsLoss ==
    \A s \in Slots :
        run[s].called =>
            LET f == run[s].frame
                xy == _prepare_batch(run[s].batch, trainer[s].device, args.non_blocking)
                y_pred == ModelForward([params |-> run[s].params], xy[1])
            IN  /\ f.exc = "none"
                /\ f.returned
                /\ f.output = Item(LossFn(y_pred, xy[2]))

\* C2: every update performs model.train(), optimizer.zero_grad(), the
\* forward pass, the loss, exactly one backward pass and then exactly one
\* optimizer step, in this order.
C2_UpdateStepOrder ==
    \A s \in Slots :
        run[s].called =>
            LET ops == run[s].frame.ops
                step == CHOOSE n \in StepOps : Count(ops, StepOps \ {n}) = 0
            IN  /\ Count(ops, {"backward"}) = 1
                /\ Count(ops, StepOps) = 1
                /\ 0 < IndexOf(ops, "model.train")
                /\ IndexOf(ops, "model.train") < IndexOf(ops, "optimizer.zero_grad")
                /\ IndexOf(ops, "optimizer.zero_grad") < IndexOf(ops, "model.forward")
                /\ IndexOf(ops, "model.forward") < IndexOf(ops, "loss_fn")
                /\ IndexOf(ops, "loss_fn") < IndexOf(ops, "backward")
                /\ IndexOf(ops, "backward") < IndexOf(ops, step)

\* C3: with amp=True exactly one backend is active in every update; on
\* torch>=1.6.0 the update runs forward and loss inside autocast, then
\* scaler.scale(loss).backward(), scaler.unscale_, scaler.step, scaler.update;
\* otherwise apex amp.scale_loss, backward and optimizer.step.
C3_AmpBackendPath ==
    \A s \in Slots :
        (run[s].called /\ args.amp) =>
            LET c == trainer[s].cells
                ops == SelectSeq(run[s].frame.ops, IsNotClip)
            IN  /\ (Load(c.is_native_amp) = "T") # (Load(c.is_apex_amp) = "T")
                /\ IF env.torch_version \in NativeAmpVersions
                   THEN ops = << "model.train", "optimizer.zero_grad", "prepare_batch",
                                 "autocast.enter", "model.forward", "loss_fn", "autocast.exit",
                                 "scaler.scale", "backward", "scaler.unscale_",
                                 "scaler.step", "scaler.update", "output_transform" >>
                   ELSE ops = << "model.train", "optimizer.zero_grad", "prepare_batch",
                                 "model.forward", "loss_fn", "amp.scale_loss", "backward",
                                 "optimizer.step", "output_transform" >>

\* C4: with non-empty grad_norm_kwargs every update calls clip_grad_norm_
\* exactly once with those kwargs, after the backward pass (and after
\* scaler.unscale_) and before the optimizer step, whatever the amp setting;
\* with empty grad_norm_kwargs it is never called.
C4_ClipGradNorm ==
    \A s \in Slots :
        run[s].called =>
            LET f == run[s].frame
                clip == IndexOf(f.ops, "clip_grad_norm_")
            IN  IF args.grad_norm_kwargs # {}
                THEN /\ Len(f.clips) = 1
                     /\ f.clips[1].kwargs = args.grad_norm_kwargs
                     /\ Count(f.ops, {"clip_grad_norm_"}) = 1
                     /\ 0 < IndexOf(f.ops, "backward")
                     /\ IndexOf(f.ops, "backward") < clip
                     /\ IndexOf(f.ops, "scaler.unscale_") < clip
                     /\ \E i \in 1..Len(f.ops) : f.ops[i] \in StepOps /\ clip < i
                ELSE f.clips = <<>> /\ Count(f.ops, {"clip_grad_norm_"}) = 0

\* C5: create_supervised_trainer raises the TPU RuntimeError exactly when the
\* device (a string, or the type of a torch.device) contains "xla" and XLA
\* support is absent; when it does, no Engine was created and no model or
\* optimizer operation was performed.
C5_TpuErrorAtConstruction ==
    \A s \in Slots :
        trainer[s].status # "none" =>
            /\ (trainer[s].exc = "RuntimeError: TPU")
                  <=> (trainer[s].device \in XlaDevices /\ ~env.has_xla_support)
            /\ trainer[s].exc = "RuntimeError: TPU" =>
                  /\ trainer[s].status = "raised"
                  /\ trainer[s].cls = "none"
                  /\ trainer[s].engine = 0
                  /\ trainer[s].factory_ops = <<>>
                  /\ ~run[s].called

C5_Witness ==
    \E s, q \in Slots :
        /\ trainer[s].exc = "RuntimeError: TPU"
        /\ trainer[s].device.kind = "str"
        /\ trainer[q].status = "engine"
        /\ trainer[q].device.kind = "str"

C7_InferenceIsReadOnly ==
    /\ model.params = InitModel.params
    /\ \A s \in Slots :
          evalRun[s].called =>
              LET r == evalRun[s]
                  f == r.frame
                  xy == _prepare_batch(r.batch, evaluator[s].device, args.non_blocking)
              IN  /\ f.exc = "none"
                  /\ f.returned
                  /\ f.mode = "eval"
                  /\ 0 < IndexOf(f.ops, "model.eval")
                  /\ IndexOf(f.ops, "model.eval") < IndexOf(f.ops, "model.forward")
                  /\ 0 < IndexOf(f.ops, "no_grad.enter")
                  /\ IndexOf(f.ops, "no_grad.enter") < IndexOf(f.ops, "prepare_batch")
                  /\ IndexOf(f.ops, "prepare_batch") < IndexOf(f.ops, "model.forward")
                  /\ IndexOf(f.ops, "model.forward") < IndexOf(f.ops, "no_grad.exit")
                  /\ f.output = <<ModelForward([params |-> r.params], xy[1]), xy[2]>>
                  /\ Count(f.ops, TrainingOps) = 0
                  /\ f.params = r.params

C7_Witness ==
    \E s \in Slots :
        /\ evalRun[s].called
        /\ evaluator[s].iteration = MaxIterations
        /\ evaluator[s].device.kind # "None"
        /\ evalRun[s].frame.output[1].data # evalRun[s].frame.output[2].data

\* C8: create_supervised_evaluator attaches every metric of the metrics map to
\* the returned engine under its own name, exactly once; with metrics None or
\* empty nothing is attached and an engine is still returned.
C8_MetricsAttached ==
    \A s \in Slots :
        evaluator[s].status # "none" =>
            LET mine == {i \in 1..Len(attached) : attached[i].engine = evaluator[s].engine}
                items == args.metrics.items
            IN  /\ evaluator[s].status = "engine"
                /\ evaluator[s].engine > 0
                /\ \A q \in Slots \ {s} : evaluator[q].engine # evaluator[s].engine
                /\ IF args.metrics.none \/ items = <<>>
                   THEN mine = {}
                   ELSE /\ Cardinality(mine) = Len(items)
                        /\ \A k \in 1..Len(items) :
                              Cardinality({i \in mine : /\ attached[i].name = items[k][1]
                                                        /\ attached[i].metric = items[k][2]}) = 1

C8_Witness ==
    \E s, q \in Slots :
        /\ s # q
        /\ evaluator[s].status = "engine"
        /\ evaluator[q].status = "engine"
        /\ Len(args.metrics.items) = 2
        /\ Len(attached) = 4

\* C9: the compute function of AveragePrecision returns exactly
\* average_precision_score(targets, predictions): targets first, predictions
\* second, and nothing else is computed.
C9_DelegatesToSklearn ==
    score.computed =>
        score.value = [fn |-> "average_precision_score",
                       y_true |-> metric.targets.data,
                       y_score |-> metric.predictions.data]

C9_Witness ==
    /\ score.computed
    /\ Len(metric.predictions.data) = MaxSamples
    /\ metric.predictions.data # metric.targets.data
    /\ metric.device = StrCuda

====
